---- MODULE Spec2Model ----
(***************************************************************************)
(* The feed-polling pipeline of gator: handlerAgg drives scrapeFeeds, which *)
(* selects the next feed, marks it fetched, fetches its document and stores *)
(* one post per entry.  Storage (feeds, feed_follows, posts) is shared by   *)
(* every running agg process.                                               *)
(***************************************************************************)
EXTENDS Integers, Sequences, FiniteSets, TLC

VARIABLES
    feeds,      \* table feeds: feed id -> [url, user_id, last_fetched_at]
    follows,    \* table feed_follows: set of [id, user_id, feed_id]
    posts,      \* table posts, in insertion order: [feed_id, url, published_at]
    remote,     \* the document the remote server serves
    now,        \* the wall clock
    pc,         \* per process: position in handlerAgg / scrapeFeeds
    feedInfo,   \* per process: scrapeFeeds' local feedInfo
    err,        \* per process: scrapeFeeds' local err
    prevFeed,   \* per process: the feed row the previous cycle selected (0: none)
    rssFeed,    \* per process: scrapeFeeds' local rssFeed.Channel.Item
    idx,        \* per process: position of the range loop over the items
    trace,      \* per process: CreatePost calls of the current cycle, in order
    scrapeErr,  \* per process: value returned by the last scrapeFeeds call
    msg,        \* per process: what the current cycle printed
    fetched,    \* per process: whether the current cycle called rss.FetchFeed
    aggErr,     \* per process: value returned by handlerAgg
    tickerOn,   \* per process: the ticker of handlerAgg exists and runs
    tickC,      \* per process: number of ticks buffered in ticker.C (capacity 1)
    cycles,     \* per process: number of scrapeFeeds calls started
    recvd,      \* per process: number of ticks received from ticker.C
    running,    \* per process: number of scrapeFeeds calls in progress
    timeArg,    \* the argument of a parseRawTime call
    timeOut,    \* what that call returned
    xmlFeed,    \* the document xml.Unmarshal produced inside an rss.FetchFeed call
    fetchOut,   \* what that call returned
    currentUser,\* the user named by Config.CurrentUserName
    cmd,        \* the last command run besides agg: its name, user, URL and result
    users       \* table users: the registered users

vars == <<feeds, follows, posts, remote, now, pc, feedInfo, err, prevFeed, rssFeed, idx, trace,
          scrapeErr, msg, fetched, aggErr, tickerOn, tickC, cycles, recvd, running,
          timeArg, timeOut, xmlFeed, fetchOut, currentUser, cmd, users>>

\* The state of handlerAgg and scrapeFeeds.
pipeline == <<feeds, follows, posts, remote, now, pc, feedInfo, err, prevFeed, rssFeed, idx,
              trace, scrapeErr, msg, fetched, aggErr, tickerOn, tickC, cycles, recvd, running>>

timeVars == <<timeArg, timeOut>>

fetchVars == <<xmlFeed, fetchOut>>

userVars == <<currentUser, cmd, users>>

\* The state of handlerAgg and scrapeFeeds outside the store.
aggVars == <<remote, now, pc, feedInfo, err, prevFeed, rssFeed, idx, trace, scrapeErr, msg,
             fetched, aggErr, tickerOn, tickC, cycles, recvd, running>>

\* The state of the calls that are made outside handlerAgg.
aux == <<timeVars, fetchVars, userVars>>

store == <<feeds, follows, posts>>

(***************************************************************************)
(* Bounds and input sets                                                    *)
(***************************************************************************)
\* Longest document served, and the number of scrapeFeeds calls in one run.
MaxItems == 3
MaxCycles == 3

Procs == {"p1", "p2"}

\* UUIDs: every uuid.New() yields a value different from all others.
FeedIds == {11, 12, 13}
UserIds == {21, 22}
FollowId(u, f) == 100 + 10 * (u - 20) + (f - 10)

FeedUrl(f) == CASE f = 11 -> "http://a" [] f = 12 -> "http://b" [] OTHER -> "http://c"

\* last_fetched_at is a nullable column.
Null == -1
MaxStamp == 2
Stamps == {Null} \cup 1..MaxStamp
\* The clock when agg starts: later than every stored timestamp.
T0 == MaxStamp + 1

Links == {"/a", "/b"}

(***************************************************************************)
(* Errors: a Go error value is modelled by its dynamic type (kind) and, for *)
(* *pq.Error, the Code and Constraint fields the code reads.                *)
(***************************************************************************)
Err(kind, code, constraint) == [kind |-> kind, code |-> code, constraint |-> constraint]

Nil == Err("nil", "", "")
ErrNoRows == Err("sql", "ErrNoRows", "")
UniqueViolation == "23505"
PqDupLink == Err("pq", UniqueViolation, "posts_url_key")
PqDupOther == Err("pq", UniqueViolation, "posts_pkey")
PqConn == Err("pq", "08006", "")
BadConn == Err("driver", "ErrBadConn", "")
FetchError == Err("net", "timeout", "")
ParseError == Err("xml", "SyntaxError", "")
SelectFailed == Err("fmt", "Failed to fetch feed", "")
MarkFailed == Err("fmt", "Failed to mark as fetched", "")
BadTime == Err("fmt", "Can't get a valid time", "")
BadArgs == Err("fmt", "The 'agg' command takes a single time-between-requests argument", "")

(***************************************************************************)
(* parseRawTime: a publication-date string is modelled by the layout it was *)
(* written in (or "junk") and the instant it denotes.                       *)
(***************************************************************************)
layouts == <<"RFC822", "RFC822Z", "RFC850", "RFC1123", "RFC1123Z", "RFC3339", "RFC3339Nano">>

TimeStr(fmt, t) == [fmt |-> fmt, t |-> t]

\* time.Parse(layout, s) succeeds: the string is in that layout; a fractional
\* second is optional on input for both RFC3339 layouts.
Accepts(layout, s) ==
    \/ s.fmt = layout
    \/ layout \in {"RFC3339", "RFC3339Nano"} /\ s.fmt \in {"RFC3339", "RFC3339Nano"}

TimeParse(layout, s) ==
    IF Accepts(layout, s) THEN [err |-> Nil, t |-> s.t] ELSE [err |-> BadTime, t |-> 0]

\* What parseRawTime returns: the time, the error and the string its message quotes.
Parsed(t, e, quoted) == [err |-> e, t |-> t, quoted |-> quoted]

NoStr == TimeStr("", 0)

NotCalled == Parsed(0, Nil, TimeStr("not called", 0))

\* parseFrom giving up when the first layout fails.
parseFrom_FirstOnly(i, s) ==
    IF TimeParse(layouts[1], s).err = Nil
    THEN Parsed(TimeParse(layouts[1], s).t, Nil, NoStr)
    ELSE Parsed(0, BadTime, s)

RECURSIVE parseFrom(_, _)
parseFrom(i, s) ==
    IF i > Len(layouts) THEN Parsed(0, BadTime, s)
    ELSE IF TimeParse(layouts[i], s).err = Nil THEN Parsed(TimeParse(layouts[i], s).t, Nil, NoStr)
    ELSE parseFrom(i + 1, s)

parseRawTime(timeStr) == parseFrom(1, timeStr)

(***************************************************************************)
(* Remote documents                                                         *)
(***************************************************************************)
RSSItem(link, pubDate) == [Link |-> link, PubDate |-> pubDate]

Items == { RSSItem("/a", TimeStr("RFC1123", 1)),
           RSSItem("/b", TimeStr("RFC3339", 2)),
           RSSItem("/b", TimeStr("junk", 0)) }

SeqsUpTo(S, n) == UNION { [1..k -> S] : k \in 0..n }

Docs == SeqsUpTo(Items, MaxItems)

(***************************************************************************)
(* rss.FetchFeed after xml.Unmarshal: a text is a sequence of characters    *)
(* and escaped entities.                                                    *)
(***************************************************************************)
\* html.UnescapeString on one character or entity.
Unescape(c) ==
    CASE c = "&amp;" -> "&" [] c = "&lt;" -> "<" [] OTHER -> c

UnescapeString(s) == [i \in DOMAIN s |-> Unescape(s[i])]

Texts == { <<"x">>, <<"&amp;">>, <<"x", "&lt;", "y">> }

\* RSSFeed.Channel with the fields FetchFeed rewrites.
Channel(title, description, item) ==
    [Title |-> title, Description |-> description, Item |-> item]

Entry(title, description) == [Title |-> title, Description |-> description]

NoFeed == Channel(<<>>, <<>>, <<>>)

Entries == { Entry(t, d) : t \in Texts, d \in Texts }

XmlFeeds ==
    { Channel(t, d, item) : t \in Texts, d \in Texts, item \in SeqsUpTo(Entries, MaxItems - 1) }

\* The other FetchFeed of the repository: the description is decoded from
\* the description and every item is rewritten in place.
FetchFeedInPlace(doc) ==
    Channel(UnescapeString(doc.Title), UnescapeString(doc.Description),
            [i \in DOMAIN doc.Item |->
                Entry(UnescapeString(doc.Item[i].Title),
                      UnescapeString(doc.Item[i].Description))])

\* internal/rss/rss.go: the description is computed from the title already
\* decoded, and the loop assigns to a copy of each item.
FetchFeed(doc) ==
    LET title == UnescapeString(doc.Title)
    IN  Channel(title, UnescapeString(title), doc.Item)

(***************************************************************************)
(* Storage queries                                                          *)
(***************************************************************************)
FollowRow(u, f) == [id |-> FollowId(u, f), user_id |-> u, feed_id |-> f]

FeedRow(f, stamp) == [url |-> FeedUrl(f), user_id |-> 21, last_fetched_at |-> stamp]

\* The zero value of GetNextFeedToFetchRow.
ZeroRow == [ID |-> 0, UserID |-> 0, FeedID |-> 0, ID_2 |-> 0, Url |-> "",
            UserID_2 |-> 0, LastFetchedAt |-> Null]

\* One row of the join: the feed_follows columns, then the feeds columns.
JoinRow(ff, f) ==
    [ID |-> ff.id, UserID |-> ff.user_id, FeedID |-> ff.feed_id, ID_2 |-> f,
     Url |-> feeds[f].url, UserID_2 |-> feeds[f].user_id,
     LastFetchedAt |-> feeds[f].last_fetched_at]

\* ... INNER JOIN feeds ON feeds.id = feed_follows.feed_id
JoinOn(ff, f) == f = ff.feed_id

\* SELECT * FROM feed_follows INNER JOIN feeds ON ...
JoinedRows ==
    { JoinRow(pair[1], pair[2]) :
        pair \in { q \in follows \X DOMAIN feeds : JoinOn(q[1], q[2]) } }

\* Before with the nulls last, as ascending order has them by default.
Before_NullsLast(a, b) == IF b = Null THEN TRUE ELSE IF a = Null THEN FALSE ELSE a <= b

\* ORDER BY feeds.last_fetched_at NULLS FIRST
Before(a, b) == IF a = Null THEN TRUE ELSE IF b = Null THEN FALSE ELSE a <= b

\* The rows that may come first in that order.
FirstRows == { r \in JoinedRows : \A s \in JoinedRows : Before(r.LastFetchedAt, s.LastFetchedAt) }

\* UPDATE feeds SET last_fetched_at = <now> WHERE id = $1
MarkFeedFetched(id) ==
    [f \in DOMAIN feeds |->
        IF f = id THEN [feeds[f] EXCEPT !.last_fetched_at = now] ELSE feeds[f]]

PostRows(link) == { i \in 1..Len(posts) : posts[i].url = link }

\* INSERT INTO posts ...: what the store answers, connection failures included.
CreatePostResults(link) ==
    { IF PostRows(link) = {} THEN Nil ELSE PqDupLink, PqDupOther, PqConn, BadConn }

\* MarkFeedFetched: done, or the store fails.
MarkFeedFetchedResults == {Nil, PqConn}

\* GetNextFeedToFetch as scrapeFeeds consumes it: one row, or sql.ErrNoRows.
GetNextFeedToFetchResults ==
    { [row |-> r, err |-> Nil] : r \in FirstRows }
    \cup (IF JoinedRows = {} THEN { [row |-> ZeroRow, err |-> ErrNoRows] } ELSE {})
    \cup { [row |-> ZeroRow, err |-> PqConn] }

\* rss.FetchFeed: the served document, a network error or a markup error.
FetchFeedResults(url) ==
    { [doc |-> remote[url], err |-> Nil],
      [doc |-> <<>>, err |-> FetchError],
      [doc |-> <<>>, err |-> ParseError] }

(***************************************************************************)
(* scrapeFeeds                                                              *)
(***************************************************************************)
NoFeedsMsg == "<no feeds available at this time>"

\* scrapeFeeds returns e to handlerAgg.
Return(p, e) ==
    /\ pc' = [pc EXCEPT ![p] = "ret"]
    /\ scrapeErr' = [scrapeErr EXCEPT ![p] = e]
    /\ running' = [running EXCEPT ![p] = @ - 1]

\* handlerAgg calls scrapeFeeds.
CallScrape(p) ==
    /\ now < T0 + MaxCycles
    /\ pc' = [pc EXCEPT ![p] = "select"]
    /\ cycles' = [cycles EXCEPT ![p] = @ + 1]
    /\ running' = [running EXCEPT ![p] = @ + 1]
    /\ now' = now + 1
    /\ prevFeed' = [prevFeed EXCEPT ![p] = feedInfo[p].ID_2]
    /\ feedInfo' = [feedInfo EXCEPT ![p] = ZeroRow]
    /\ err' = [err EXCEPT ![p] = Nil]
    /\ rssFeed' = [rssFeed EXCEPT ![p] = <<>>]
    /\ idx' = [idx EXCEPT ![p] = 0]
    /\ trace' = [trace EXCEPT ![p] = <<>>]
    /\ msg' = [msg EXCEPT ![p] = ""]
    /\ fetched' = [fetched EXCEPT ![p] = FALSE]
    /\ scrapeErr' = [scrapeErr EXCEPT ![p] = Nil]

\* IsNoFeed comparing with another sentinel of database/sql.
IsNoFeed_WrongSentinel(e) == e = Err("sql", "ErrConnDone", "")

\* if err == sql.ErrNoRows: for scrapeFeeds the absence of a feed is no error.
IsNoFeed(e) == e = ErrNoRows

\* feedInfo, err := state.db.GetNextFeedToFetch(...) and the handling of err.
Select(p) ==
    /\ pc[p] = "select"
    /\ \E res \in GetNextFeedToFetchResults :
        /\ feedInfo' = [feedInfo EXCEPT ![p] = res.row]
        /\ err' = [err EXCEPT ![p] = res.err]
        /\ IF res.err = Nil
           THEN /\ pc' = [pc EXCEPT ![p] = "mark"]
                /\ UNCHANGED <<scrapeErr, running, msg>>
           ELSE IF IsNoFeed(res.err)
           THEN /\ msg' = [msg EXCEPT ![p] = NoFeedsMsg]
                /\ Return(p, Nil)
           ELSE /\ Return(p, SelectFailed)
                /\ UNCHANGED msg
    /\ UNCHANGED <<store, remote, now, prevFeed, rssFeed, idx, trace, fetched,
                   aggErr, tickerOn, tickC, cycles, recvd>>
    /\ UNCHANGED aux

\* MarkArg naming one fixed feed, whatever row was selected.
MarkArg_FixedFeed(row) == CHOOSE f \in FeedIds : TRUE

\* The argument scrapeFeeds passes to MarkFeedFetched.
MarkArg(row) == row.ID

\* state.db.MarkFeedFetched(context.Background(), feedInfo.ID)
Mark(p) ==
    /\ pc[p] = "mark"
    /\ \E e \in MarkFeedFetchedResults :
        /\ err' = [err EXCEPT ![p] = e]
        /\ IF e = Nil
           THEN /\ feeds' = MarkFeedFetched(MarkArg(feedInfo[p]))
                /\ pc' = [pc EXCEPT ![p] = "fetch"]
                /\ UNCHANGED <<scrapeErr, running>>
           ELSE /\ Return(p, MarkFailed)
                /\ UNCHANGED feeds
    /\ UNCHANGED <<follows, posts, remote, now, feedInfo, prevFeed, rssFeed, idx, trace, msg,
                   fetched, aggErr, tickerOn, tickC, cycles, recvd>>
    /\ UNCHANGED aux

\* rssFeed, err := rss.FetchFeed(context.Background(), feedInfo.Url)
Fetch(p) ==
    /\ pc[p] = "fetch"
    /\ fetched' = [fetched EXCEPT ![p] = TRUE]
    /\ \E res \in FetchFeedResults(feedInfo[p].Url) :
        /\ err' = [err EXCEPT ![p] = res.err]
        /\ IF res.err = Nil
           THEN /\ rssFeed' = [rssFeed EXCEPT ![p] = res.doc]
                /\ idx' = [idx EXCEPT ![p] = 1]
                /\ pc' = [pc EXCEPT ![p] = "item"]
                /\ UNCHANGED <<scrapeErr, running>>
           ELSE /\ Return(p, res.err)
                /\ UNCHANGED <<rssFeed, idx>>
    /\ UNCHANGED <<store, remote, now, feedInfo, prevFeed, trace, msg,
                   aggErr, tickerOn, tickC, cycles, recvd>>
    /\ UNCHANGED aux

\* The row CreatePost is asked to insert.
PostRow(row, rssItem, pubDate) ==
    [feed_id |-> row.FeedID, url |-> rssItem.Link, published_at |-> pubDate]

\* Continues with the constraint name of another key: a duplicate link is fatal.
Continues_OtherKey(e) ==
    IF e = ErrNoRows THEN TRUE
    ELSE IF e.kind = "pq"
    THEN e.code = UniqueViolation /\ e.constraint = "posts_pkey"
    ELSE TRUE

\* Continues without the exemption: every *pq.Error is returned.
Continues_NoExemption(e) ==
    IF e = ErrNoRows THEN TRUE ELSE e.kind # "pq"

\* Continues for the first branch alone: whatever is not sql.ErrNoRows is returned.
Continues_OnlyNoRows(e) == e = ErrNoRows

\* After CreatePost returned err, the loop goes on to the next item
\* (otherwise scrapeFeeds returns err).
Continues(e) ==
    IF e = ErrNoRows THEN TRUE
    ELSE IF e.kind = "pq"
    THEN e.code = UniqueViolation /\ e.constraint = "posts_url_key"
    ELSE TRUE

\* ReturnsOnBadDate with the error of parseRawTime dropped.
ReturnsOnBadDate_Ignored(e) == FALSE

\* if err != nil { return err } after parseRawTime.
ReturnsOnBadDate(e) == e # Nil

\* One iteration of the loop over rssFeed.Channel.Item.
Item(p) ==
    /\ pc[p] = "item"
    /\ idx[p] <= Len(rssFeed[p])
    /\ LET rssItem == rssFeed[p][idx[p]]
           parsed == parseRawTime(rssItem.PubDate)
       IN  IF ReturnsOnBadDate(parsed.err)
           THEN /\ err' = [err EXCEPT ![p] = parsed.err]
                /\ Return(p, parsed.err)
                /\ UNCHANGED <<posts, trace, idx>>
           ELSE \E e \in CreatePostResults(rssItem.Link) :
                /\ err' = [err EXCEPT ![p] = e]
                /\ posts' = IF e = Nil
                            THEN Append(posts, PostRow(feedInfo[p], rssItem, parsed.t))
                            ELSE posts
                /\ trace' = [trace EXCEPT ![p] =
                                Append(@, [link |-> rssItem.Link, err |-> e])]
                /\ IF Continues(e)
                   THEN /\ idx' = [idx EXCEPT ![p] = @ + 1]
                        /\ UNCHANGED <<pc, scrapeErr, running>>
                   ELSE /\ Return(p, e)
                        /\ UNCHANGED idx
    /\ UNCHANGED <<feeds, follows, remote, now, feedInfo, prevFeed, rssFeed, msg, fetched,
                   aggErr, tickerOn, tickC, cycles, recvd>>
    /\ UNCHANGED aux

\* The loop is over: return nil.
ScrapeDone(p) ==
    /\ pc[p] = "item"
    /\ idx[p] > Len(rssFeed[p])
    /\ Return(p, Nil)
    /\ UNCHANGED <<store, remote, now, feedInfo, err, prevFeed, rssFeed, idx, trace, msg, fetched,
                   aggErr, tickerOn, tickC, cycles, recvd>>
    /\ UNCHANGED aux

(***************************************************************************)
(* handlerAgg                                                               *)
(***************************************************************************)
\* The argument checks, then the first scrapeFeeds call.
AggStart(p) ==
    /\ pc[p] = "start"
    /\ \E argsOk \in BOOLEAN :
        IF argsOk
        THEN /\ CallScrape(p)
             /\ UNCHANGED aggErr
        ELSE /\ pc' = [pc EXCEPT ![p] = "returned"]
             /\ aggErr' = [aggErr EXCEPT ![p] = BadArgs]
             /\ UNCHANGED <<now, feedInfo, err, prevFeed, rssFeed, idx, trace, scrapeErr, msg,
                            fetched, cycles, running>>
    /\ UNCHANGED <<store, remote, tickerOn, tickC, recvd>>
    /\ UNCHANGED aux

\* if err = scrapeFeeds(state); err != nil { return err }, and the ticker
\* that is created after the first call and stopped on return.
AggAfter(p) ==
    /\ pc[p] = "ret"
    /\ IF scrapeErr[p] # Nil
       THEN /\ pc' = [pc EXCEPT ![p] = "returned"]
            /\ aggErr' = [aggErr EXCEPT ![p] = scrapeErr[p]]
            /\ tickerOn' = [tickerOn EXCEPT ![p] = FALSE]
       ELSE /\ pc' = [pc EXCEPT ![p] = "wait"]
            /\ tickerOn' = [tickerOn EXCEPT ![p] = TRUE]
            /\ UNCHANGED aggErr
    /\ UNCHANGED <<store, remote, now, feedInfo, err, prevFeed, rssFeed, idx, trace,
                   scrapeErr, msg, fetched, tickC, cycles, recvd, running>>
    /\ UNCHANGED aux

\* The runtime delivers a tick; it is dropped when ticker.C is full.
Tick(p) ==
    /\ tickerOn[p]
    /\ tickC' = [tickC EXCEPT ![p] = 1]
    /\ UNCHANGED <<store, remote, now, pc, feedInfo, err, prevFeed, rssFeed, idx, trace, scrapeErr,
                   msg, fetched, aggErr, tickerOn, cycles, recvd, running>>
    /\ UNCHANGED aux

\* CanReceive of a loop that starts a call on every tick without waiting for
\* the call in progress.
CanReceive_Overlap(p) ==
    pc[p] \in {"wait", "select", "mark", "fetch", "item"} /\ tickC[p] > 0

\* The loop may take a tick from ticker.C.
CanReceive(p) == pc[p] = "wait" /\ tickC[p] > 0

\* for range ticker.C { scrapeFeeds(state) ... }
RecvTick(p) ==
    /\ CanReceive(p)
    /\ tickC' = [tickC EXCEPT ![p] = 0]
    /\ recvd' = [recvd EXCEPT ![p] = @ + 1]
    /\ CallScrape(p)
    /\ UNCHANGED <<store, remote, aggErr, tickerOn>>
    /\ UNCHANGED aux

Next ==
    \E p \in Procs :
        \/ AggStart(p)
        \/ Select(p)
        \/ Mark(p)
        \/ Fetch(p)
        \/ Item(p)
        \/ ScrapeDone(p)
        \/ AggAfter(p)
        \/ Tick(p)
        \/ RecvTick(p)

(***************************************************************************)
(* The commands of a logged-in user                                         *)
(***************************************************************************)
Cmd(name, user, url, e) == [name |-> name, user |-> user, url |-> url, err |-> e]

NoCmd == Cmd("", 0, "", Nil)

\* An empty Config.CurrentUserName.
NoUser == 0

\* Every user is registered; the first is logged in and has run no command.
InitUser ==
    /\ currentUser = CHOOSE u \in UserIds : \A v \in UserIds : u <= v
    /\ cmd = NoCmd
    /\ users = UserIds

Urls == { FeedUrl(f) : f \in FeedIds }

\* The id uuid.New() gives the feed created for a URL.
FeedOf(url) == CHOOSE f \in FeedIds : FeedUrl(f) = url

CreateFeedFailed == Err("fmt", "'CreateFeed' failed", "")
FollowRecordFailed == Err("fmt", "Failed to create follow record", "")
FeedLookupFailed == Err("fmt", "Failed to fetch feed inside 'handlerFollower'", "")
DeleteFailed == Err("fmt", "Failed to delete feed-follow", "")
NotInRecord == Err("fmt", "URL doesn't exist in the feed-follows record", "")
WrapperFailed == Err("fmt", "Failed to get user inside middleware wrapper function", "")
NoSuchUser == Err("fmt", "Nonexistent user", "")
AlreadyRegistered == Err("fmt", "User is already registered", "")
SetUserFailed == Err("os", "WriteFile", "")
PqDupUrl == Err("pq", UniqueViolation, "feeds_url_key")
PqDupFollow == Err("pq", UniqueViolation, "feed_follows_user_id_feed_id_key")

\* The feeds with a URL: one at most, url being UNIQUE.
FeedsByURL(url) == { f \in DOMAIN feeds : feeds[f].url = url }

\* NewFeedRow with the owner left out.
NewFeedRow_NoOwner(u, url) == [url |-> url, user_id |-> 0, last_fetched_at |-> Null]

\* The row handlerAddFeed asks CreateFeed to insert.
NewFeedRow(u, url) == [url |-> url, user_id |-> u, last_fetched_at |-> Null]

\* INSERT INTO feeds ...: what the store answers.
CreateFeedResults(url) == { IF FeedsByURL(url) = {} THEN Nil ELSE PqDupUrl, PqConn }

\* INSERT INTO feed_follows ...: what the store answers.
CreateFeedFollowResults(fs, u, f) ==
    { IF FollowRow(u, f) \in fs THEN PqDupFollow ELSE Nil, PqConn }

\* DELETE FROM feed_follows USING feeds
\* WHERE feed_follows.user_id = $1 AND feeds.url = $2: the rows deleted.
DeleteFeedFollow(u, url) ==
    { ff \in follows : ff.user_id = u /\ \E f \in DOMAIN feeds : feeds[f].url = url }

\* middlewareWrapper: GetUser finds the user Config.CurrentUserName names.
Resolves == currentUser \in users

\* A command changes nothing of a running agg but the store.
CmdFrame == UNCHANGED <<posts, aggVars, timeVars, fetchVars, users>>

\* login USERNAME: refused for a user GetUser does not find, else SetUser.
handlerLogin(u) ==
    /\ \E argsOk \in BOOLEAN, setOk \in BOOLEAN :
        IF ~argsOk
        THEN /\ cmd' = Cmd("login", u, "", BadArgs)
             /\ UNCHANGED currentUser
        ELSE IF u \notin users
        THEN /\ cmd' = Cmd("login", u, "", NoSuchUser)
             /\ UNCHANGED currentUser
        ELSE IF ~setOk
        THEN /\ cmd' = Cmd("login", u, "", SetUserFailed)
             /\ UNCHANGED currentUser
        ELSE /\ cmd' = Cmd("login", u, "", Nil)
             /\ currentUser' = u
    /\ UNCHANGED <<feeds, follows>>
    /\ CmdFrame

\* register USERNAME: refused for a registered name, else CreateUser and SetUser.
handlerRegister(u) ==
    /\ \E argsOk \in BOOLEAN, e \in {Nil, PqConn}, setOk \in BOOLEAN :
        IF ~argsOk
        THEN /\ cmd' = Cmd("register", u, "", BadArgs)
             /\ UNCHANGED <<users, currentUser>>
        ELSE IF u \in users
        THEN /\ cmd' = Cmd("register", u, "", AlreadyRegistered)
             /\ UNCHANGED <<users, currentUser>>
        ELSE IF e # Nil
        THEN /\ cmd' = Cmd("register", u, "", e)
             /\ UNCHANGED <<users, currentUser>>
        ELSE /\ users' = users \cup {u}
             /\ IF setOk
                THEN /\ cmd' = Cmd("register", u, "", Nil)
                     /\ currentUser' = u
                ELSE /\ cmd' = Cmd("register", u, "", SetUserFailed)
                     /\ UNCHANGED currentUser
    /\ UNCHANGED <<store, aggVars, timeVars, fetchVars>>

\* reset: every row of users is deleted, and with the users their feeds,
\* follows and posts; the configuration file is not written.
handlerReset ==
    /\ \E argsOk \in BOOLEAN, e \in {Nil, PqConn} :
        IF ~argsOk
        THEN /\ cmd' = Cmd("reset", currentUser, "", BadArgs)
             /\ UNCHANGED <<users, store>>
        ELSE IF e # Nil
        THEN /\ cmd' = Cmd("reset", currentUser, "", e)
             /\ UNCHANGED <<users, store>>
        ELSE /\ cmd' = Cmd("reset", currentUser, "", Nil)
             /\ users' = {}
             /\ feeds' = [f \in {} |-> FeedRow(f, Null)]
             /\ follows' = {}
             /\ posts' = <<>>
    /\ UNCHANGED <<currentUser, aggVars, timeVars, fetchVars>>

\* addfeed NAME URL: CreateFeed, then CreateFeedFollow for the feed created.
handlerAddFeed(url) ==
    /\ \E argsOk \in BOOLEAN, e1 \in CreateFeedResults(url), e2 \in {Nil, PqConn} :
        LET u == currentUser
            f == FeedOf(url)
        IN  IF ~Resolves
            THEN /\ cmd' = Cmd("addfeed", u, url, WrapperFailed)
                 /\ UNCHANGED <<feeds, follows>>
            ELSE IF ~argsOk
            THEN /\ cmd' = Cmd("addfeed", u, url, BadArgs)
                 /\ UNCHANGED <<feeds, follows>>
            ELSE IF e1 # Nil
            THEN /\ cmd' = Cmd("addfeed", u, url, CreateFeedFailed)
                 /\ UNCHANGED <<feeds, follows>>
            ELSE /\ feeds' = [g \in DOMAIN feeds \cup {f} |->
                                 IF g = f THEN NewFeedRow(u, url) ELSE feeds[g]]
                 /\ IF e2 # Nil
                    THEN /\ cmd' = Cmd("addfeed", u, url, FollowRecordFailed)
                         /\ UNCHANGED follows
                    ELSE /\ cmd' = Cmd("addfeed", u, url, Nil)
                         /\ follows' = follows \cup {FollowRow(u, f)}
    /\ UNCHANGED currentUser
    /\ CmdFrame

\* follow URL: GetFeedByURL, then CreateFeedFollow.
handlerFollow(url) ==
    /\ \E argsOk \in BOOLEAN, lookupOk \in BOOLEAN :
        LET u == currentUser
        IN  IF ~Resolves
            THEN /\ cmd' = Cmd("follow", u, url, WrapperFailed)
                 /\ UNCHANGED follows
            ELSE IF ~argsOk
            THEN /\ cmd' = Cmd("follow", u, url, BadArgs)
                 /\ UNCHANGED follows
            ELSE IF FeedsByURL(url) = {} \/ ~lookupOk
            THEN /\ cmd' = Cmd("follow", u, url, FeedLookupFailed)
                 /\ UNCHANGED follows
            ELSE \E f \in FeedsByURL(url) : \E e \in CreateFeedFollowResults(follows, u, f) :
                    IF e # Nil
                    THEN /\ cmd' = Cmd("follow", u, url, FollowRecordFailed)
                         /\ UNCHANGED follows
                    ELSE /\ cmd' = Cmd("follow", u, url, Nil)
                         /\ follows' = follows \cup {FollowRow(u, f)}
    /\ UNCHANGED feeds
    /\ UNCHANGED currentUser
    /\ CmdFrame

\* unfollow URL: DeleteFeedFollow, an error when it deleted no row.
handlerUnfollow(url) ==
    /\ \E argsOk \in BOOLEAN, e \in {Nil, PqConn} :
        LET u == currentUser
            deleted == DeleteFeedFollow(u, url)
        IN  IF ~Resolves
            THEN /\ cmd' = Cmd("unfollow", u, url, WrapperFailed)
                 /\ UNCHANGED follows
            ELSE IF ~argsOk
            THEN /\ cmd' = Cmd("unfollow", u, url, BadArgs)
                 /\ UNCHANGED follows
            ELSE IF e # Nil
            THEN /\ cmd' = Cmd("unfollow", u, url, DeleteFailed)
                 /\ UNCHANGED follows
            ELSE /\ follows' = follows \ deleted
                 /\ cmd' = Cmd("unfollow", u, url, IF deleted = {} THEN NotInRecord ELSE Nil)
    /\ UNCHANGED feeds
    /\ UNCHANGED currentUser
    /\ CmdFrame

NextCrud ==
    \/ \E u \in UserIds : handlerLogin(u)
    \/ \E url \in Urls : handlerAddFeed(url)
    \/ \E url \in Urls : handlerFollow(url)
    \/ \E url \in Urls : handlerUnfollow(url)

(***************************************************************************)
(* Initial states                                                           *)
(***************************************************************************)
InitProcs(active, start) ==
    /\ now = start
    /\ pc = [p \in Procs |-> IF p \in active THEN "start" ELSE "off"]
    /\ feedInfo = [p \in Procs |-> ZeroRow]
    /\ err = [p \in Procs |-> Nil]
    /\ prevFeed = [p \in Procs |-> 0]
    /\ rssFeed = [p \in Procs |-> <<>>]
    /\ idx = [p \in Procs |-> 0]
    /\ trace = [p \in Procs |-> <<>>]
    /\ scrapeErr = [p \in Procs |-> Nil]
    /\ msg = [p \in Procs |-> ""]
    /\ fetched = [p \in Procs |-> FALSE]
    /\ aggErr = [p \in Procs |-> Nil]
    /\ tickerOn = [p \in Procs |-> FALSE]
    /\ tickC = [p \in Procs |-> 0]
    /\ cycles = [p \in Procs |-> 0]
    /\ recvd = [p \in Procs |-> 0]
    /\ running = [p \in Procs |-> 0]

\* No call outside handlerAgg is made.
InitAux ==
    /\ timeArg = NoStr
    /\ timeOut = NotCalled
    /\ xmlFeed = NoFeed
    /\ fetchOut = NoFeed
    /\ InitUser

OtherDoc == << RSSItem("/b", TimeStr("RFC3339", 2)) >>

Serving(d) == [u \in { FeedUrl(f) : f \in FeedIds } |-> IF u = FeedUrl(11) THEN d ELSE OtherDoc]

\* One agg process; two never-fetched feeds, both followed; any document.
Init ==
    /\ InitProcs({"p1"}, T0)
    /\ InitAux
    /\ feeds = [f \in {11, 12} |-> FeedRow(f, Null)]
    /\ follows \in { {FollowRow(21, 11), FollowRow(21, 12)},
                      {FollowRow(21, 11), FollowRow(22, 11)} }
    /\ posts = <<>>
    /\ \E d \in Docs : remote = Serving(d)

Spec == Init /\ [][Next]_vars

SchedDocs == { <<>>, << RSSItem("/a", TimeStr("RFC1123", 1)),
                       RSSItem("/b", TimeStr("junk", 0)),
                       RSSItem("/b", TimeStr("RFC3339", 2)) >> }

\* One agg process; three feeds with any timestamps, any of them followed.
InitSched ==
    /\ InitProcs({"p1"}, T0)
    /\ InitAux
    /\ feeds \in [FeedIds -> { FeedRow(f, s) : f \in FeedIds, s \in Stamps }]
    /\ \A f \in FeedIds : feeds[f].url = FeedUrl(f)
    /\ \E F \in SUBSET FeedIds : follows = { FollowRow(21, f) : f \in F }
    /\ posts = <<>>
    /\ \E d \in SchedDocs : remote = Serving(d)

SpecSched == InitSched /\ [][Next]_vars

ConcDocs == SeqsUpTo(Items, MaxItems - 1)

\* Two agg processes on the same store, started one clock step later (one
\* scrapeFeeds call less in the run); one followed feed; any shorter document.
InitConc ==
    /\ InitProcs(Procs, T0 + 1)
    /\ InitAux
    /\ feeds = [f \in {11} |-> FeedRow(f, Null)]
    /\ follows = {FollowRow(21, 11)}
    /\ posts = <<>>
    /\ \E d \in ConcDocs : remote = Serving(d)

SpecConc == InitConc /\ [][Next]_vars

(***************************************************************************)
(* parseRawTime on its own                                                  *)
(***************************************************************************)
\* The shapes a publication date comes in: the layouts tried, other layouts
\* of package time, and strings that are no time at all.
TimeShapes ==
    { layouts[i] : i \in DOMAIN layouts }
    \cup {"ANSIC", "UnixDate", "RubyDate", "Kitchen", "DateTime", "junk", ""}

Instants == 0..T0

TimeStrs == { TimeStr(shape, t) : shape \in TimeShapes, t \in Instants }

NoStore ==
    /\ feeds = [f \in {} |-> FeedRow(f, Null)]
    /\ follows = {}
    /\ posts = <<>>
    /\ remote = Serving(<<>>)

\* No agg process; any publication-date string.
InitTime ==
    /\ InitProcs({}, T0)
    /\ NoStore
    /\ timeArg \in TimeStrs
    /\ timeOut = NotCalled
    /\ xmlFeed = NoFeed
    /\ fetchOut = NoFeed
    /\ InitUser

\* pubDate, err := parseRawTime(timeStr)
CallParseRawTime ==
    /\ timeOut = NotCalled
    /\ timeOut' = parseRawTime(timeArg)
    /\ UNCHANGED <<pipeline, timeArg, fetchVars, userVars>>

NextTime == CallParseRawTime

SpecTime == InitTime /\ [][NextTime]_vars

(***************************************************************************)
(* The decoding step of rss.FetchFeed on its own                            *)
(***************************************************************************)
\* No agg process; any unmarshalled document.
InitFetch ==
    /\ InitProcs({}, T0)
    /\ NoStore
    /\ timeArg = NoStr
    /\ timeOut = NotCalled
    /\ xmlFeed \in XmlFeeds
    /\ fetchOut = NoFeed
    /\ InitUser

\* rssFeed, err := rss.FetchFeed(...), from xml.Unmarshal to the return.
CallFetchFeed ==
    /\ fetchOut = NoFeed
    /\ fetchOut' = FetchFeed(xmlFeed)
    /\ UNCHANGED <<pipeline, timeVars, xmlFeed, userVars>>

NextFetch == CallFetchFeed

SpecFetch == InitFetch /\ [][NextFetch]_vars

(***************************************************************************)
(* The commands on their own                                                *)
(***************************************************************************)
\* No agg process; an empty store.
InitCrud ==
    /\ InitProcs({}, T0)
    /\ NoStore
    /\ InitAux

SpecCrud == InitCrud /\ [][NextCrud]_vars

(***************************************************************************)
(* An agg process while users log in, follow and unfollow                   *)
(***************************************************************************)
\* One agg process, started one clock step later; one never-fetched feed,
\* not followed yet, which serves a one-entry document.
InitUsers ==
    /\ InitProcs({"p1"}, T0 + 1)
    /\ InitAux
    /\ feeds = [f \in {11} |-> FeedRow(f, Null)]
    /\ follows = {}
    /\ posts = <<>>
    /\ remote = Serving(OtherDoc)

\* The URLs of the feeds in storage.
StoredUrls == { feeds[f].url : f \in DOMAIN feeds }

NextUsers ==
    \/ Next
    \/ \E u \in UserIds : handlerLogin(u)
    \/ \E url \in StoredUrls : handlerFollow(url)
    \/ \E url \in StoredUrls : handlerUnfollow(url)

SpecUsers == InitUsers /\ [][NextUsers]_vars

(***************************************************************************)
(* Registration, login and reset                                            *)
(***************************************************************************)
\* No agg process; an empty store, no user registered, none named in the
\* configuration.
InitAccounts ==
    /\ InitProcs({}, T0)
    /\ NoStore
    /\ timeArg = NoStr
    /\ timeOut = NotCalled
    /\ xmlFeed = NoFeed
    /\ fetchOut = NoFeed
    /\ currentUser = NoUser
    /\ cmd = NoCmd
    /\ users = {}

NextAccounts ==
    \/ \E u \in UserIds : handlerRegister(u)
    \/ \E u \in UserIds : handlerLogin(u)
    \/ handlerReset
    \/ \E url \in Urls : handlerAddFeed(url)

SpecAccounts == InitAccounts /\ [][NextAccounts]_vars

(***************************************************************************)
(* Properties of the polling pipeline                                       *)
(***************************************************************************)
\* The cycle of p is past its MarkFeedFetched call.
Marked(p) ==
    \/ pc[p] \in {"fetch", "item"}
    \/ pc[p] \in {"ret", "wait", "returned"} /\ fetched[p]

Followed == { ff.feed_id : ff \in follows } \cap DOMAIN feeds

\* a is strictly staler than b.
Staler(a, b) == Before(a, b) /\ ~Before(b, a)

CountRows(link) == Cardinality(PostRows(link))

\* CreatePost answers of the current cycle of p that were no storage failure.
Ingested(p) == { k \in DOMAIN trace[p] : trace[p][k].err \in {Nil, PqDupLink} }

\* C1: once a cycle is past its mark step, whatever happens to the fetch and
\* the entries, the selected feed's last-fetched timestamp has been advanced
\* to the time of the cycle, and the next cycle does not select that feed
\* again when another followed feed is staler.
C1_MarkedBeforeFetch ==
    \A p \in Procs :
        /\ Marked(p) =>
              LET stamp == feeds[feedInfo[p].ID_2].last_fetched_at
              IN  /\ stamp # Null
                  /\ Staler(feedInfo[p].LastFetchedAt, stamp)
                  /\ stamp <= now
        /\ ( /\ pc[p] = "mark"
             /\ prevFeed[p] \in DOMAIN feeds
             /\ \E g \in Followed : Staler(feeds[g].last_fetched_at,
                                             feeds[prevFeed[p]].last_fetched_at) )
           => feedInfo[p].ID_2 # prevFeed[p]

\* C2: a link whose insertion was answered by the store has exactly one post
\* row however often it was ingested, no link ever has two rows, and the
\* duplicate answer of a repeated ingestion is not returned by the cycle nor
\* by handlerAgg.
C2_IdempotentOnLink ==
    /\ \A l \in Links : CountRows(l) <= 1
    /\ \A p \in Procs :
        /\ \A k \in Ingested(p) : CountRows(trace[p][k].link) = 1
        /\ (\E k \in DOMAIN trace[p] : trace[p][k].err = PqDupLink)
               => /\ scrapeErr[p] # PqDupLink
                  /\ aggErr[p] # PqDupLink
                  /\ pc[p] = "ret" /\ Ingested(p) = DOMAIN trace[p]
                        => scrapeErr[p] \in {Nil, BadTime}

\* C2 witness: a second cycle has re-ingested a stored link and returned nil.
C2_Witness ==
    \E p \in Procs :
        /\ cycles[p] = 2
        /\ pc[p] = "ret"
        /\ scrapeErr[p] = Nil
        /\ \E k \in DOMAIN trace[p] : trace[p][k].err = PqDupLink

\* C3: with two processes ingesting the same document, a link both have
\* submitted has exactly one row, inserted by one of them only, and the
\* process that came second goes on: its cycle does not return the
\* duplicate-link violation.
C3_ConcurrentIngest ==
    \A p, q \in Procs :
        (p # q /\ rssFeed[p] = rssFeed[q]) =>
            \A k \in Ingested(p), j \in Ingested(q) :
                trace[p][k].link = trace[q][j].link =>
                    /\ CountRows(trace[p][k].link) = 1
                    /\ ~(trace[p][k].err = Nil /\ trace[q][j].err = Nil)
                    /\ trace[q][j].err = PqDupLink =>
                          /\ scrapeErr[q] # PqDupLink
                          /\ aggErr[q] # PqDupLink
                          /\ (pc[q] = "ret" /\ j = Len(trace[q]))
                                => scrapeErr[q] \in {Nil, BadTime}

\* C3 witness: both processes are in their first cycle on the same document;
\* one inserted a link, the other was answered with the duplicate violation
\* and both cycles have returned nil.
C3_Witness ==
    /\ cycles["p1"] = 1 /\ cycles["p2"] = 1
    /\ rssFeed["p1"] = rssFeed["p2"] /\ Len(rssFeed["p1"]) = 2
    /\ pc["p1"] = "ret" /\ pc["p2"] = "ret"
    /\ scrapeErr["p1"] = Nil /\ scrapeErr["p2"] = Nil
    /\ \E k \in DOMAIN trace["p1"], j \in DOMAIN trace["p2"] :
        /\ trace["p1"][k].link = trace["p2"][j].link
        /\ trace["p1"][k].err = Nil
        /\ trace["p2"][j].err = PqDupLink
    /\ \E k \in DOMAIN trace["p1"] : trace["p1"][k].err = PqDupLink

\* C4: a CreatePost failure other than the duplicate-link violation is the
\* last CreatePost call of its cycle, and the cycle returns that error.
C4_OtherInsertFailureEndsCycle ==
    \A p \in Procs :
        \A k \in DOMAIN trace[p] :
            trace[p][k].err \notin {Nil, PqDupLink} =>
                /\ k = Len(trace[p])
                /\ pc[p] \in {"ret", "returned"}
                /\ scrapeErr[p] = trace[p][k].err

\* Position of the first entry of doc whose date does not parse (0: none).
FirstBad(doc) ==
    LET bad == { k \in DOMAIN doc : parseRawTime(doc[k].PubDate).err # Nil }
    IN  IF bad = {} THEN 0 ELSE CHOOSE k \in bad : \A j \in bad : k <= j

\* C5: in a cycle on a document whose entry k is the first with an
\* unparseable date, CreatePost is called for the entries before k in
\* document order and for no entry from k on; unless an insertion failed
\* fatally before, the cycle returns the unparseable-timestamp error with
\* exactly the k-1 entries before k attempted, each one the store accepted
\* being a post with its own normalized instant.
C5_BadDateAborts ==
    \A p \in Procs :
        LET doc == rssFeed[p]
            k == FirstBad(doc)
        IN  (pc[p] \in {"item", "ret"} /\ k > 0) =>
              /\ Len(trace[p]) < k
              /\ \A j \in DOMAIN trace[p] : trace[p][j].link = doc[j].Link
              /\ ( /\ pc[p] = "ret"
                   /\ \A j \in DOMAIN trace[p] : trace[p][j].err \notin {PqDupOther, PqConn} )
                 => /\ scrapeErr[p] = BadTime
                    /\ Len(trace[p]) = k - 1
                    /\ \A j \in DOMAIN trace[p] :
                          trace[p][j].err = Nil =>
                            \E i \in PostRows(doc[j].Link) :
                                posts[i].published_at = parseRawTime(doc[j].PubDate).t

\* C5 witness: entry 2 of 3 has a bad date; entry 1 is stored, entry 3 was
\* never submitted and the cycle returned the unparseable-timestamp error.
C5_Witness ==
    \E p \in Procs :
        /\ pc[p] = "ret"
        /\ scrapeErr[p] = BadTime
        /\ Len(rssFeed[p]) = 3
        /\ FirstBad(rssFeed[p]) = 2
        /\ Len(trace[p]) = 1
        /\ trace[p][1].err = Nil
        /\ CountRows(rssFeed[p][1].Link) = 1
        /\ parseRawTime(rssFeed[p][3].PubDate).err = Nil
        /\ rssFeed[p][3].Link # rssFeed[p][1].Link
        /\ CountRows(rssFeed[p][3].Link) = 0

Stamp(f) == feeds[f].last_fetched_at

\* C6 as stated: the selected feed is the stalest of all feeds in storage,
\* nulls first, and only a store without feeds has nothing to select; the
\* cycle after one that selected and marked feed A selects another feed when
\* the store has one, A's timestamp being the latest by then.
C6_OldestOfAllFeeds ==
    \A p \in Procs :
        /\ pc[p] = "mark" =>
              /\ \A f \in DOMAIN feeds : Before(feedInfo[p].LastFetchedAt, Stamp(f))
              /\ (prevFeed[p] # 0 /\ DOMAIN feeds # {prevFeed[p]}) =>
                    feedInfo[p].ID_2 # prevFeed[p]
        /\ (pc[p] = "ret" /\ err[p] = ErrNoRows) => DOMAIN feeds = {}

\* C6, the selection alone: the selected row is a followed feed with its stored
\* timestamp, and no followed feed is staler, a null timestamp being the
\* stalest; nothing is selected exactly when no feed is followed.  With A, B
\* and C followed: {A: null, B: 1, C: 2} selects A, and with A's timestamp
\* the latest, {A: MaxStamp, B: 1, C: 2}, B.
C6_OldestOfFollowedFeeds ==
    \A p \in Procs :
        /\ pc[p] = "mark" =>
              LET r == feedInfo[p]
              IN  /\ r.ID_2 \in Followed
                  /\ r.FeedID = r.ID_2
                  /\ r.Url = feeds[r.ID_2].url
                  /\ r.LastFetchedAt = Stamp(r.ID_2)
                  /\ \A f \in Followed : Before(r.LastFetchedAt, Stamp(f))
                  /\ (Followed = FeedIds /\ Stamp(12) = 1 /\ Stamp(13) = 2) =>
                        /\ Stamp(11) = Null => r.ID_2 = 11
                        /\ Stamp(11) = MaxStamp => r.ID_2 = 12
        /\ (pc[p] = "ret" /\ err[p] = ErrNoRows) => Followed = {}

\* C6 witness: A never fetched, B and C fetched, all followed, A selected.
C6_Witness ==
    \E p \in Procs :
        /\ pc[p] = "mark"
        /\ Followed = FeedIds
        /\ Stamp(11) = Null /\ Stamp(12) = 1 /\ Stamp(13) = 2
        /\ feedInfo[p].ID_2 = 11

\* C7: a cycle whose selection finds no feed to poll prints the no-feeds
\* message and returns nil in that one step, without a fetch, an insertion or
\* any change of the store; handlerAgg then keeps its loop: it waits on the
\* running ticker and has returned nothing.
C7_NoFeedCycle ==
    [][ \A p \in Procs :
          /\ (pc[p] = "select" /\ pc'[p] # "select" /\ err'[p] = ErrNoRows) =>
                /\ JoinedRows = {}
                /\ pc'[p] = "ret"
                /\ scrapeErr'[p] = Nil
                /\ msg'[p] = NoFeedsMsg
                /\ store' = store
                /\ ~fetched'[p]
                /\ trace'[p] = <<>>
          /\ (pc[p] = "ret" /\ err[p] = ErrNoRows /\ pc'[p] # "ret") =>
                /\ pc'[p] = "wait"
                /\ tickerOn'[p]
                /\ aggErr'[p] = Nil
                /\ store' = store
          /\ (pc[p] = "wait" /\ err[p] = ErrNoRows /\ pc'[p] # "wait") =>
                /\ pc'[p] = "select"
                /\ cycles'[p] = cycles[p] + 1
      ]_vars

\* C7 witness: after a cycle that found no feed, the next tick has started
\* another cycle, which found none either and returned nil.
C7_Witness ==
    \E p \in Procs :
        /\ cycles[p] = 2
        /\ prevFeed[p] = 0
        /\ pc[p] = "ret"
        /\ err[p] = ErrNoRows
        /\ msg[p] = NoFeedsMsg
        /\ scrapeErr[p] = Nil
        /\ posts = <<>>

\* C8: the first scrapeFeeds call needs no tick and every later call has
\* taken one tick, and at most one call is in progress, exactly while the
\* process is inside scrapeFeeds; a tick that arrives meanwhile waits in
\* ticker.C.
C8_OneCycleAtATime ==
    \A p \in Procs :
        /\ running[p] \in {0, 1}
        /\ running[p] = 1 <=> pc[p] \in {"select", "mark", "fetch", "item"}
        /\ cycles[p] > 0 => cycles[p] = recvd[p] + 1
        /\ cycles[p] = 0 => recvd[p] = 0 /\ pc[p] \in {"start", "returned", "off"}
        /\ tickC[p] \in {0, 1}

\* C8 witness: the second cycle is running and the next tick is already due.
C8_Witness ==
    \E p \in Procs :
        /\ cycles[p] = 2
        /\ recvd[p] = 1
        /\ running[p] = 1
        /\ pc[p] = "item"
        /\ tickC[p] = 1

\* C9: a cycle that returned a fetch error or a parse error does not make
\* handlerAgg return: the loop is kept.
C9_FetchErrorNotFatal ==
    \A p \in Procs :
        scrapeErr[p] \in {FetchError, ParseError} =>
            /\ pc[p] # "returned"
            /\ aggErr[p] = Nil

\* C10: an error of the selection, the mark, the fetch, the date parsing or
\* the insertion, other than the absence of a feed (and the duplicate-link
\* answer, which is no failure), is returned by scrapeFeeds and then by
\* handlerAgg, which runs no later cycle.
C10_AnyErrorEndsLoop ==
    \A p \in Procs :
        /\ err[p] \notin {Nil, ErrNoRows, PqDupLink} =>
              /\ pc[p] \in {"ret", "returned"}
              /\ scrapeErr[p] # Nil
        /\ pc[p] = "returned" /\ cycles[p] > 0 =>
              /\ aggErr[p] = scrapeErr[p]
              /\ aggErr[p] # Nil
              /\ ~tickerOn[p]

\* C11: a cycle that has finished has advanced the last-fetched timestamp of
\* a feed in storage to the time of the cycle, or has printed the no-feeds
\* message, or has returned an error.
C11_NoSilentCycle ==
    \A p \in Procs :
        pc[p] = "ret" =>
            \/ \E f \in DOMAIN feeds : Stamp(f) = now
            \/ msg[p] = NoFeedsMsg
            \/ scrapeErr[p] # Nil

DistinctLinks(doc) ==
    \A i, j \in DOMAIN doc : doc[i].Link = doc[j].Link => i = j

\* The first cycle of p went through its whole document and the store
\* accepted every entry.
StoredAll(p) ==
    /\ pc[p] = "ret"
    /\ cycles[p] = 1
    /\ fetched[p]
    /\ scrapeErr[p] = Nil
    /\ DistinctLinks(rssFeed[p])
    /\ Len(trace[p]) = Len(rssFeed[p])
    /\ \A j \in DOMAIN trace[p] : trace[p][j].err = Nil

\* C12: the first cycle, on a never-fetched feed whose n entries have
\* distinct links and parseable dates, leaves exactly n posts, entry j's post
\* owned by the selected feed and carrying entry j's normalized instant, and
\* the selected feed's last-fetched timestamp equal to the time of the cycle.
C12_CycleStoresAllEntries ==
    \A p \in Procs :
        StoredAll(p) =>
            LET doc == rssFeed[p]
                f == feedInfo[p].ID_2
            IN  /\ Len(posts) = Len(doc)
                /\ \A j \in DOMAIN doc :
                      posts[j] = [feed_id |-> f, url |-> doc[j].Link,
                                  published_at |-> parseRawTime(doc[j].PubDate).t]
                /\ Stamp(f) = now

\* The order of the layouts as the description of parseRawTime gives it.
RFCOrder == <<"RFC822", "RFC822Z", "RFC850", "RFC1123", "RFC1123Z", "RFC3339", "RFC3339Nano">>

\* The positions in RFCOrder of the layouts that parse s.
Parsing(s) == { i \in DOMAIN RFCOrder : Accepts(RFCOrder[i], s) }

\* C13: parseRawTime returns, without an error, the instant the first layout
\* of RFC822, RFC822Z, RFC850, RFC1123, RFC1123Z, RFC3339, RFC3339Nano that
\* parses the string gives; when none parses it, and only then, it returns an
\* error whose message quotes the string; the call changes nothing else.
C13_FirstLayoutWins ==
    /\ [](timeOut # NotCalled =>
            IF Parsing(timeArg) # {}
            THEN LET i == CHOOSE k \in Parsing(timeArg) : \A j \in Parsing(timeArg) : k <= j
                 IN  timeOut = Parsed(TimeParse(RFCOrder[i], timeArg).t, Nil, NoStr)
            ELSE timeOut.err # Nil /\ timeOut.quoted = timeArg)
    /\ [][timeOut' # timeOut =>
            UNCHANGED <<pipeline, timeArg, fetchVars, userVars>>]_vars

\* C13 witness: a string with a fractional second, which RFC3339 parses
\* before RFC3339Nano is tried, has been parsed to its instant.
C13_Witness ==
    /\ timeArg = TimeStr("RFC3339Nano", T0)
    /\ timeOut = Parsed(T0, Nil, NoStr)

\* C14: the document FetchFeed returns has the channel title, the channel
\* description (decoded from the description) and the title and description
\* of every entry with their escaped entities decoded.
C14_EntitiesDecoded ==
    fetchOut # NoFeed =>
        /\ fetchOut.Title = UnescapeString(xmlFeed.Title)
        /\ fetchOut.Description = UnescapeString(xmlFeed.Description)
        /\ Len(fetchOut.Item) = Len(xmlFeed.Item)
        /\ \A i \in DOMAIN xmlFeed.Item :
              /\ fetchOut.Item[i].Title = UnescapeString(xmlFeed.Item[i].Title)
              /\ fetchOut.Item[i].Description = UnescapeString(xmlFeed.Item[i].Description)

\* C15: no step of a polling cycle creates or deletes a feed or a follow,
\* and a feed row that a step changes is the feed selected by the cycle that
\* is marking, changed in its last-fetched timestamp only.
C15_CycleFrame ==
    [][ /\ DOMAIN feeds' = DOMAIN feeds
        /\ follows' = follows
        /\ \A f \in DOMAIN feeds :
              feeds'[f] # feeds[f] =>
                  /\ \E p \in Procs : pc[p] = "mark" /\ feedInfo[p].ID_2 = f
                  /\ feeds'[f].url = feeds[f].url
                  /\ feeds'[f].user_id = feeds[f].user_id
      ]_vars

\* C15 witness: a second cycle has marked, fetched and stored a post in a
\* store of several feeds.
C15_Witness ==
    \E p \in Procs :
        /\ cycles[p] = 2
        /\ pc[p] = "ret"
        /\ Marked(p)
        /\ Len(posts) > 0
        /\ Cardinality(DOMAIN feeds) > 1

\* C16: the entries of a document are submitted in document order, none left
\* out; the step in which CreatePost answers with the duplicate-link
\* violation leaves the posts as they are, returns nothing and moves the
\* loop to the next entry.
C16_DuplicateSkipped ==
    /\ [](\A p \in Procs :
            pc[p] = "item" =>
                /\ Len(trace[p]) = idx[p] - 1
                /\ \A j \in DOMAIN trace[p] : trace[p][j].link = rssFeed[p][j].Link)
    /\ [][ \A p \in Procs :
              (trace'[p] # trace[p] /\ err'[p] = PqDupLink) =>
                  /\ pc'[p] = "item"
                  /\ idx'[p] = idx[p] + 1
                  /\ trace'[p] = Append(trace[p], [link |-> rssFeed[p][idx[p]].Link,
                                                   err |-> PqDupLink])
                  /\ posts' = posts
                  /\ scrapeErr'[p] = scrapeErr[p]
          ]_vars

\* C16 witness: an entry was rejected as a duplicate, the entry after it was
\* stored, and the link of the duplicate still has its one post.
C16_Witness ==
    \E p \in Procs :
        \E j \in DOMAIN trace[p] :
            /\ trace[p][j].err = PqDupLink
            /\ j < Len(trace[p])
            /\ trace[p][j + 1].err = Nil
            /\ CountRows(trace[p][j].link) = 1
            /\ CountRows(trace[p][j + 1].link) = 1

\* The follows of user u on the feeds with a URL.
FollowsOfURL(u, url) ==
    { ff \in follows : ff.user_id = u /\ ff.feed_id \in FeedsByURL(url) }

\* C17: an unfollow of a URL by the current user deletes no follow row
\* other than that user's follow of the feed with that URL, deletes that one
\* when it returns success, and adds none; the feeds are as before.
C17_UnfollowFrame ==
    [][ (cmd' # cmd /\ cmd'.name = "unfollow") =>
            /\ cmd'.user = currentUser
            /\ follows' \subseteq follows
            /\ follows \ follows' \subseteq FollowsOfURL(cmd'.user, cmd'.url)
            /\ cmd'.err = Nil => follows' = follows \ FollowsOfURL(cmd'.user, cmd'.url)
            /\ cmd'.err = Nil => FollowsOfURL(cmd'.user, cmd'.url) # {}
            /\ feeds' = feeds
      ]_vars

\* C18: when the last command is an addfeed that returned success, the
\* store holds a feed with its URL owned by the logged-in user who ran it and
\* a follow of that feed by that user.
C18_AddFeedOwnsAndFollows ==
    (cmd.name = "addfeed" /\ cmd.err = Nil) =>
        /\ cmd.user = currentUser
        /\ \E f \in FeedsByURL(cmd.url) :
              /\ feeds[f].user_id = cmd.user
              /\ \E ff \in follows : ff.user_id = cmd.user /\ ff.feed_id = f

\* C18 witness: the second user has added a second feed.
C18_Witness ==
    /\ cmd.name = "addfeed"
    /\ cmd.err = Nil
    /\ cmd.user # (CHOOSE u \in UserIds : \A v \in UserIds : u <= v)
    /\ Cardinality(DOMAIN feeds) = 2
    /\ \E f \in DOMAIN feeds : feeds[f].user_id # cmd.user

\* C19: the feed a cycle of agg selects, and then fetches, is one the
\* currently logged-in user follows at that moment; a feed that user does
\* not follow, or follows no more, is not selected.
C19_PollsCurrentUsersFeeds ==
    [][ \A p \in Procs :
          (pc[p] = "select" /\ pc'[p] = "mark") =>
              \E ff \in follows :
                  ff.user_id = currentUser /\ ff.feed_id = feedInfo'[p].ID_2
      ]_vars

\* C20: in a loop that goes on (the previous cycle returned no error) over
\* an unchanged set of followed feeds, a cycle does not select the feed the
\* previous cycle selected when more than one feed is there to poll: the
\* feed just polled is the freshest and the others come before it.
C20_Rotation ==
    \A p \in Procs :
        ( /\ pc[p] = "mark"
          /\ cycles[p] > 1
          /\ prevFeed[p] # 0
          /\ Cardinality(Followed) > 1 )
        => feedInfo[p].ID_2 # prevFeed[p]

\* C21: in a cycle that has selected a feed, the id passed to
\* MarkFeedFetched, the feed whose URL is fetched and the feed_id of every
\* post the cycle has inserted are the id of the selected feed row.
C21_OneFeedPerCycle ==
    \A p \in Procs :
        pc[p] \in {"mark", "fetch", "item"} =>
            LET f == feedInfo[p].ID_2
            IN  /\ f \in DOMAIN feeds
                /\ MarkArg(feedInfo[p]) = f
                /\ feedInfo[p].Url = feeds[f].url
                /\ \A j \in DOMAIN trace[p] :
                      trace[p][j].err = Nil =>
                          \E i \in PostRows(trace[p][j].link) : posts[i].feed_id = f

\* C22: the user the configuration names is none or a user of the users
\* table, and a command that needs the logged-in user fails to resolve it
\* only when the configuration names none.
C22_CurrentUserRegistered ==
    /\ currentUser = NoUser \/ currentUser \in users
    /\ cmd.err = WrapperFailed => cmd.user = NoUser

\* C23: an addfeed that returns an error leaves the feeds as they were, and
\* every feed an addfeed stores comes with a follow by the user who added it.
C23_AddFeedAllOrNothing ==
    [][ (cmd' # cmd /\ cmd'.name = "addfeed") =>
            /\ cmd'.err # Nil => feeds' = feeds
            /\ \A f \in DOMAIN feeds' \ DOMAIN feeds :
                  FollowRow(feeds'[f].user_id, f) \in follows'
      ]_vars

====
